---- MODULE Spec2Model ----
(***************************************************************************)
(* A model of the portfolio backend: the tracking routes (visits, events), *)
(* the ads, blog and leads routes and the mongoose schemas they write to.  *)
(* Every awaited storage or network call of a handler is one step, so that *)
(* other requests and the clock can move between two awaits.               *)
(***************************************************************************)
EXTENDS Integers, Sequences, FiniteSets, TLC

\* ---------------------------------------------------------------- bounds
MaxTime == 2
TicksPerDay == 2
MaxVisits == 3
MaxEvents == 1
MaxTrackSlots == 2

MaxCount == 2
MaxLeads == 2
MaxPosts == 2
MaxComments == 3
MaxMsgLen == 2
MaxSessLen == 1

VARIABLES clock, tz, visits, events, trk, ads, adNext, adSlot, adResp, adAcks, adList,
          leads, leadNext, leadResp, mails,
          posts, blogNext, comments, blogAdmin, blogSlot, blogResp, blogStats,
          blogCats,
          exportCsv, report, geo, sess

trackVars == <<visits, events, trk>>
adVars == <<ads, adNext, adSlot, adResp, adAcks, adList>>
leadVars == <<leads, leadNext, leadResp, mails>>
blogVars == <<posts, blogNext, comments, blogAdmin, blogSlot, blogResp, blogStats, blogCats>>
exportVars == <<exportCsv, report>>
geoVars == <<geo>>
sessVars == <<sess>>
vars == <<clock, tz, trackVars, adVars, leadVars, blogVars, exportVars, geoVars, sessVars>>

\* What the routers of one resource leave alone.
offTrack == <<adVars, leadVars, blogVars, exportVars, geoVars, sessVars>>
offAds == <<tz, trackVars, leadVars, blogVars, exportVars, geoVars, sessVars>>
offLeads == <<tz, trackVars, adVars, blogVars, exportVars, geoVars, sessVars>>
offBlog == <<clock, tz, trackVars, adVars, leadVars, exportVars, geoVars, sessVars>>
offExport == <<clock, tz, trackVars, adVars, leadVars, blogVars, geoVars, sessVars>>
offGeo == <<clock, tz, visits, events, adVars, leadVars, blogVars, exportVars, sessVars>>
offSess == <<clock, tz, trackVars, adVars, leadVars, blogVars, exportVars, geoVars>>

\* ------------------------------------------------------------------ time
\* new Date(): the instant, in ticks.  The server's zone is tz ticks east.
TzOffsets == {0}

UtcDate(t) == t \div TicksPerDay

LocalDate(t) == (t + tz) \div TicksPerDay

\* today = new Date(); today.setHours(0, 0, 0, 0): local midnight, as an instant
StartOfToday(t) == LocalDate(t) * TicksPerDay - tz

Tick ==
    /\ clock < MaxTime
    /\ clock' = clock + 1
    /\ UNCHANGED <<tz, trackVars, adVars, leadVars, blogVars, exportVars, geoVars, sessVars>>

\* ------------------------------------------------- session ids and headers
HeaderVals == {"", "1", "true", "0"}

\* dnt = req.headers['dnt'] || req.headers['do-not-track']
hasDoNotTrack(hdr) ==
    LET dnt == IF hdr.dnt # "" THEN hdr.dnt ELSE hdr.alt
    IN  dnt = "1" \/ dnt = "true"

Ips == {<<"203.0.113.7">>}
UserAgents == {<<"Mozilla">>}

\* A date text that would keep the time of day.
IsoInstant(timestamp) == <<ToString(timestamp)>>

\* new Date(timestamp).toISOString().split('T')[0]: the UTC date, YYYY-MM-DD
IsoDate(timestamp) == <<ToString(UtcDate(timestamp))>>

\* `${ip}-${userAgent}-${date}`: a text is the sequence of its pieces
SessionData(ip, userAgent, timestamp) ==
    ip \o <<"-">> \o userAgent \o <<"-">> \o IsoDate(timestamp)

\* sha256(data), hex, first 16 characters: a digest without collisions,
\* which is told by the text it was made from
Digest16(data) == data

\* EMAIL_SETUP.md 153-164
generateSessionId(ip, userAgent, timestamp) ==
    Digest16(SessionData(ip, userAgent, timestamp))

NoSid == <<>>
ClientSids == {<<"client", "s1", 0>>}

\* The addresses, user agents and instants generateSessionId is given
SessTexts == UNION {[1..n -> {"x", "-"}] : n \in 0..MaxSessLen}
SessInputs == [ip : SessTexts, userAgent : SessTexts, timestamp : 0..MaxTime]
NoSess == [a |-> <<>>, b |-> <<>>, ida |-> <<>>, idb |-> <<>>]

\* A call of generateSessionId, kept with the call before it
SessionDerive(b) ==
    /\ sess' = [a |-> sess.b, ida |-> sess.idb, b |-> <<b>>,
                idb |-> generateSessionId(b.ip, b.userAgent, b.timestamp)]
    /\ UNCHANGED offSess

InitSess == sess = NoSess

NextSess == \E b \in SessInputs : SessionDerive(b)

\* ------------------------------------------------------- tracking requests
TrackSlots == 1..MaxTrackSlots

IdleReq ==
    [pc |-> "idle", kind |-> "", hdr |-> [dnt |-> "", alt |-> ""],
     sid |-> NoSid, today |-> 0, isUnique |-> FALSE,
     status |-> 0, respSid |-> NoSid, respUnique |-> FALSE]

\* part_000 19-47: DNT check, body validation, session id, start of today
VisitReceive(r, hdr, valid, clientSid, ip, ua) ==
    /\ trk[r].pc = "idle"
    /\ LET req == [IdleReq EXCEPT !.kind = "visit", !.hdr = hdr]
       IN  IF hasDoNotTrack(hdr)
           THEN trk' = [trk EXCEPT ![r] = [req EXCEPT !.pc = "done", !.status = 200]]
           ELSE IF ~valid
           THEN trk' = [trk EXCEPT ![r] = [req EXCEPT !.pc = "done", !.status = 400]]
           ELSE trk' = [trk EXCEPT ![r] =
                    [req EXCEPT !.pc = "findOne",
                                !.sid = IF clientSid # NoSid THEN clientSid
                                        ELSE generateSessionId(ip, ua, clock),
                                !.today = StartOfToday(clock)]]
    /\ UNCHANGED <<clock, tz, visits, events, offTrack>>

\* A query that would also see the requests of the session still in flight
VisitFindOneInFlight(r) ==
    /\ trk[r].pc = "findOne"
    /\ LET existingVisit == \E i \in 1..Len(visits) :
                               /\ visits[i].sessionId = trk[r].sid
                               /\ visits[i].timestamp >= trk[r].today
           inFlight == \E q \in TrackSlots \ {r} :
                          /\ trk[q].pc \in {"geo", "create"}
                          /\ trk[q].kind = "visit"
                          /\ trk[q].sid = trk[r].sid
       IN  trk' = [trk EXCEPT ![r].pc = "geo",
                              ![r].isUnique = ~existingVisit /\ ~inFlight]
    /\ UNCHANGED <<clock, tz, visits, events, offTrack>>

\* part_000 49-54: Visit.findOne({sessionId, timestamp: {$gte: today}})
VisitFindOne(r) ==
    /\ trk[r].pc = "findOne"
    /\ LET existingVisit == \E i \in 1..Len(visits) :
                               /\ visits[i].sessionId = trk[r].sid
                               /\ visits[i].timestamp >= trk[r].today
       IN  trk' = [trk EXCEPT ![r].pc = "geo", ![r].isUnique = ~existingVisit]
    /\ UNCHANGED <<clock, tz, visits, events, offTrack>>

\* part_000 57 and 129: geo = await getCountryFromIP(ip), which never throws
\* (the location it returns is left out of the stored records)
TrackGeo(r) ==
    /\ trk[r].pc = "geo"
    /\ trk' = [trk EXCEPT ![r].pc = "create"]
    /\ UNCHANGED <<clock, tz, visits, events, offTrack>>

\* part_000 66-91: Visit.create({..., timestamp: new Date()}) and the 201
VisitCreate(r) ==
    /\ trk[r].pc = "create"
    /\ trk[r].kind = "visit"
    /\ Len(visits) < MaxVisits
    /\ LET visit == [sessionId |-> trk[r].sid, isUnique |-> trk[r].isUnique,
                     timestamp |-> clock]
       IN  /\ visits' = Append(visits, visit)
           /\ trk' = [trk EXCEPT ![r].pc = "done", ![r].status = 201,
                                  ![r].sid = NoSid, ![r].isUnique = FALSE,
                                 ![r].respSid = visit.sessionId,
                                 ![r].respUnique = visit.isUnique]
    /\ UNCHANGED <<clock, tz, events, offTrack>>

\* part_000 92-98 and 149-155: a storage failure is answered with 500
TrackCreateFails(r) ==
    /\ trk[r].pc = "create"
    /\ trk' = [trk EXCEPT ![r] = [IdleReq EXCEPT !.pc = "done", !.kind = trk[r].kind,
                                              !.hdr = trk[r].hdr, !.status = 500]]
    /\ UNCHANGED <<clock, tz, visits, events, offTrack>>

\* part_000 105-126: DNT check, body validation, session id
EventReceive(r, hdr, valid, clientSid, ip, ua) ==
    /\ trk[r].pc = "idle"
    /\ LET req == [IdleReq EXCEPT !.kind = "event", !.hdr = hdr]
       IN  IF hasDoNotTrack(hdr)
           THEN trk' = [trk EXCEPT ![r] = [req EXCEPT !.pc = "done", !.status = 200]]
           ELSE IF ~valid
           THEN trk' = [trk EXCEPT ![r] = [req EXCEPT !.pc = "done", !.status = 400]]
           ELSE trk' = [trk EXCEPT ![r] =
                    [req EXCEPT !.pc = "geo",
                                !.sid = IF clientSid # NoSid THEN clientSid
                                        ELSE generateSessionId(ip, ua, clock)]]
    /\ UNCHANGED <<clock, tz, visits, events, offTrack>>

\* part_000 132-148: Event.create({..., timestamp: new Date()}) and the 201
EventCreate(r) ==
    /\ trk[r].pc = "create"
    /\ trk[r].kind = "event"
    /\ Len(events) < MaxEvents
    /\ events' = Append(events, [sessionId |-> trk[r].sid, timestamp |-> clock])
    /\ trk' = [trk EXCEPT ![r] = [IdleReq EXCEPT !.pc = "done", !.kind = "event",
                                              !.hdr = trk[r].hdr, !.status = 201]]
    /\ UNCHANGED <<clock, tz, visits, offTrack>>

\* The response has been sent: the slot can take the next request.
TrackDone(r) ==
    /\ trk[r].pc = "done"
    /\ trk' = [trk EXCEPT ![r] = IdleReq]
    /\ UNCHANGED <<clock, tz, visits, events, offTrack>>

Headers == [dnt : HeaderVals, alt : HeaderVals]

TrackStep(r) ==
    \/ \E hdr \in Headers, valid \in BOOLEAN, c \in ClientSids \cup {NoSid},
          ip \in Ips, ua \in UserAgents :
          \/ VisitReceive(r, hdr, valid, c, ip, ua)
          \/ EventReceive(r, hdr, valid, c, ip, ua)
    \/ VisitFindOne(r)
    \/ TrackGeo(r)
    \/ VisitCreate(r)
    \/ EventCreate(r)
    \/ TrackCreateFails(r)
    \/ TrackDone(r)

InitTrack ==
    /\ visits = <<>>
    /\ events = <<>>
    /\ trk = [r \in TrackSlots |-> IdleReq]

\* ----------------------------------------------------------- geolocation
\* An address as getIPFromRequest hands it over: nothing, 'unknown', '::1',
\* a dotted IPv4 address or one behind the prefix '::ffff:'
V4Samples ==
    {<<127, 0, 0, 1>>, <<10, 0, 0, 5>>, <<172, 16, 0, 1>>, <<172, 32, 0, 1>>,
     <<192, 168, 1, 1>>, <<203, 0, 113, 7>>}
GeoIps ==
    {[form |-> f, octets |-> <<>>] : f \in {"", "unknown", "::1"}}
        \cup [form : {"v4", "::ffff:v4"}, octets : V4Samples]

\* EMAIL_SETUP.md 191-200: the addresses answered without a lookup
SkipsLookup(ip) ==
    \/ ip.form \in {"", "::1", "unknown"}
    \/ ip.form = "v4" /\ ip.octets = <<127, 0, 0, 1>>
    \/ ip.form = "v4" /\ ip.octets[1] = 192 /\ ip.octets[2] = 168
    \/ ip.form = "v4" /\ ip.octets[1] = 10
    \/ ip.form = "v4" /\ ip.octets[1] = 172
    \/ ip.form = "::ffff:v4" /\ ip.octets[1] = 192 /\ ip.octets[2] = 168
    \/ ip.form = "::ffff:v4" /\ ip.octets[1] = 10
    \/ ip.form = "::ffff:v4" /\ ip.octets[1] = 172

\* A lookup: where it stands, the services called so far with the outcome
\* of each call, and the location returned ("": none yet, "Unknown": the
\* sentinel, else the service whose location it is)
NoIp == [form |-> "", octets |-> <<>>]
IdleGeo == [pc |-> "idle", ip |-> NoIp, calls |-> <<>>, result |-> ""]
Sentinel == "Unknown"

\* A lookup that would give up after the first failed attempt.
GeoGiveUp(g, outcome) ==
    [g EXCEPT !.pc = "idle", !.calls = [@ EXCEPT ![Len(@)].outcome = outcome],
              !.result = Sentinel]

\* What follows a failed attempt: the secondary service after the primary,
\* the sentinel after the secondary
GeoAfterFailure(g, outcome) ==
    LET calls == [g.calls EXCEPT ![Len(g.calls)].outcome = outcome]
    IN  IF Len(calls) = 1
        THEN [g EXCEPT !.pc = "fetch",
                       !.calls = Append(calls, [service |-> "secondary", outcome |-> "pending"])]
        ELSE [g EXCEPT !.pc = "idle", !.calls = calls, !.result = Sentinel]

\* The caller goes on when the lookup has returned.
GeoResume(r, g) ==
    /\ geo' = [geo EXCEPT ![r] = g]
    /\ IF g.pc = "idle"
       THEN trk' = [trk EXCEPT ![r].pc = "create"]
       ELSE UNCHANGED trk
    /\ UNCHANGED offGeo

\* EMAIL_SETUP.md 188-222: getCountryFromIP up to the first fetch
GeoStart(r, ip) ==
    /\ trk[r].pc = "geo"
    /\ geo[r].pc = "idle"
    /\ IF SkipsLookup(ip)
       THEN GeoResume(r, [IdleGeo EXCEPT !.ip = ip, !.result = Sentinel])
       ELSE GeoResume(r, [pc |-> "fetch", ip |-> ip, result |-> "",
                          calls |-> <<[service |-> "primary", outcome |-> "pending"]>>])

\* EMAIL_SETUP.md 239-243, 277-281: fetch rejects (network error)
GeoFetchFails(r) ==
    /\ geo[r].pc = "fetch"
    /\ GeoResume(r, GeoAfterFailure(geo[r], "error"))

\* EMAIL_SETUP.md 215, 248: the timer of 5 s fires and aborts the fetch
GeoTimeout(r) ==
    /\ geo[r].pc = "fetch"
    /\ GeoResume(r, GeoAfterFailure(geo[r], "timeout"))

\* EMAIL_SETUP.md 217-226, 250-259: the response headers arrive, the timer
\* is cleared; a response that is not ok is passed over
GeoHeaders(r, ok) ==
    /\ geo[r].pc = "fetch"
    /\ IF ok
       THEN GeoResume(r, [geo[r] EXCEPT !.pc = "body"])
       ELSE GeoResume(r, GeoAfterFailure(geo[r], "status"))

\* EMAIL_SETUP.md 227-238, 260-276: the body arrives and is parsed; a
\* payload that cannot be parsed, reports an error or names no country is
\* passed over
GeoBody(r, valid) ==
    /\ geo[r].pc = "body"
    /\ IF valid
       THEN GeoResume(r, [geo[r] EXCEPT
                !.pc = "idle",
                !.calls = [@ EXCEPT ![Len(@)].outcome = "ok"],
                !.result = geo[r].calls[Len(geo[r].calls)].service])
       ELSE GeoResume(r, GeoAfterFailure(geo[r], "invalid"))

InitGeo == geo = [r \in TrackSlots |-> IdleGeo]

\* What the lookup does by itself: its timer
GeoProgramStep(r) == GeoTimeout(r)

\* What the lookup services do
GeoServiceStep(r) ==
    \/ GeoFetchFails(r)
    \/ \E ok \in BOOLEAN : GeoHeaders(r, ok)
    \/ \E valid \in BOOLEAN : GeoBody(r, valid)

\* A visit or an event with its lookup, step by step
GeoCallerStep(r) ==
    \/ \E hdr \in Headers, c \in ClientSids, ip \in Ips, ua \in UserAgents :
          \/ VisitReceive(r, hdr, TRUE, c, ip, ua)
          \/ EventReceive(r, hdr, TRUE, c, ip, ua)
    \/ VisitFindOne(r)
    \/ \E ip \in GeoIps : GeoStart(r, ip)
    \/ VisitCreate(r)
    \/ EventCreate(r)
    \/ TrackDone(r)

NextGeo == GeoCallerStep(1) \/ GeoProgramStep(1) \/ GeoServiceStep(1)

\* ------------------------------------------------------------------- ads
\* A field of a request body that may be missing: <<>> or <<value>>.
Opt(S) == {<<>>} \cup {<<x>> : x \in S}

AdStatuses == {"draft", "active", "expired"}

\* ads.js 115-121, 197-203 and Ad.js 79-85: the status the dates give at now;
\* keep is the status that stays when no branch applies
DeriveStatus(start, end, now, keep) ==
    IF end < now THEN "expired"
    ELSE IF start <= now /\ end >= now THEN "active"
    ELSE IF start > now THEN "draft"
    ELSE keep

\* A hook that would derive the status of a draft from its dates as well
AdPreSaveDrafts(doc, now) ==
    [doc EXCEPT !.status = DeriveStatus(doc.startDate, doc.endDate, now, doc.status)]

\* Ad.js 70-88: adSchema.pre('save')
AdPreSave(doc, now) ==
    IF doc.status = "draft" THEN doc
    ELSE [doc EXCEPT !.status = DeriveStatus(doc.startDate, doc.endDate, now, doc.status)]

\* Ad.js 91-96: adSchema.methods.isActive
isActive(doc, now) ==
    doc.status = "active" /\ doc.startDate <= now /\ doc.endDate >= now

\* One ad: a handler addresses one document by its id and reads no other.
AdIds == {1}
\* Two requests in flight at a time, at most one of them an admin's PUT.
AdSlots == {1, 2}
AdminSlots == {1}
\* The dates a request may carry: before MaxTime, so that each can be passed.
AdDates == 0..(MaxTime - 1)

NoAd == [startDate |-> 0, endDate |-> 0, status |-> "", clicks |-> 0, impressions |-> 0]
NoUpdate == [startDate |-> <<>>, endDate |-> <<>>, status |-> ""]
IdleAdReq == [pc |-> "idle", op |-> "", id |-> 0, doc |-> NoAd, updateData |-> NoUpdate]

CreateBodies == [startDate : AdDates, endDate : AdDates, status : AdStatuses \cup {""}]
UpdateBodies == [startDate : Opt(AdDates), endDate : Opt(AdDates), status : AdStatuses \cup {""}]

\* ads.js 98-122: the status POST /ads hands to Ad.create
CreateStatus(body, now) ==
    LET status == IF body.status = "" THEN "draft" ELSE body.status
    IN  IF status # "draft"
        THEN DeriveStatus(body.startDate, body.endDate, now, status)
        ELSE status

\* ads.js 88-147: POST /ads; Ad.create runs the pre-save hook
AdCreate(body) ==
    /\ adNext \in AdIds
    /\ IF body.endDate < body.startDate
       THEN /\ adResp' = 400
            /\ UNCHANGED <<ads, adNext>>
       ELSE /\ ads' = ads @@ (adNext :>
                AdPreSave([startDate |-> body.startDate, endDate |-> body.endDate,
                           status |-> CreateStatus(body, clock),
                           clicks |-> 0, impressions |-> 0], clock))
            /\ adNext' = adNext + 1
            /\ adResp' = 201
    /\ UNCHANGED <<clock, adSlot, adAcks, adList, offAds>>

\* ads.js 183-206: updateData, with the status derived from the dates of the
\* request and of the ad that findById returned
AdUpdateData(body, found, ad, now) ==
    IF body.status = "" /\ (body.startDate # <<>> \/ body.endDate # <<>>)
       /\ found /\ ad.status # "draft"
    THEN LET start == IF body.startDate # <<>> THEN body.startDate[1] ELSE ad.startDate
             end == IF body.endDate # <<>> THEN body.endDate[1] ELSE ad.endDate
         IN  [body EXCEPT !.status = DeriveStatus(start, end, now, "")]
    ELSE body

\* Ad.findByIdAndUpdate(id, updateData): $set of the fields updateData holds
AdApplyUpdate(ad, updateData) ==
    [ad EXCEPT !.startDate = IF updateData.startDate # <<>>
                             THEN updateData.startDate[1] ELSE @,
               !.endDate = IF updateData.endDate # <<>>
                           THEN updateData.endDate[1] ELSE @,
               !.status = IF updateData.status # "" THEN updateData.status ELSE @]

\* ads.js 158-238: PUT /ads/:id.  The date check and, when the status is to be
\* derived, findById; without it the handler goes straight to findByIdAndUpdate.
AdPutBegin(a, id, body) ==
    /\ adSlot[a].pc = "idle"
    /\ IF body.startDate # <<>> /\ body.endDate # <<>> /\ body.endDate[1] < body.startDate[1]
       THEN /\ adResp' = 400
            /\ UNCHANGED <<ads, adSlot>>
       ELSE IF body.status = "" /\ (body.startDate # <<>> \/ body.endDate # <<>>)
       THEN /\ adSlot' = [adSlot EXCEPT ![a] =
                   [IdleAdReq EXCEPT !.pc = "update", !.op = "put", !.id = id,
                       !.updateData = AdUpdateData(body, id \in DOMAIN ads,
                           IF id \in DOMAIN ads THEN ads[id] ELSE NoAd, clock)]]
            /\ UNCHANGED <<ads, adResp>>
       ELSE IF id \in DOMAIN ads
       THEN /\ ads' = [ads EXCEPT ![id] = AdApplyUpdate(@, body)]
            /\ adResp' = 200
            /\ UNCHANGED adSlot
       ELSE /\ adResp' = 404
            /\ UNCHANGED <<ads, adSlot>>
    /\ UNCHANGED <<clock, adNext, adAcks, adList, offAds>>

\* ads.js 213-230: Ad.findByIdAndUpdate(id, updateData), which runs no save hook
AdPutUpdate(a) ==
    /\ adSlot[a].pc = "update"
    /\ IF adSlot[a].id \in DOMAIN ads
       THEN /\ ads' = [ads EXCEPT ![adSlot[a].id] = AdApplyUpdate(@, adSlot[a].updateData)]
            /\ adResp' = 200
       ELSE /\ adResp' = 404
            /\ UNCHANGED ads
    /\ adSlot' = [adSlot EXCEPT ![a] = IdleAdReq]
    /\ UNCHANGED <<clock, adNext, adAcks, adList, offAds>>

\* ads.js 243-265: DELETE /ads/:id
AdDelete(id) ==
    /\ IF id \in DOMAIN ads
       THEN /\ ads' = [x \in DOMAIN ads \ {id} |-> ads[x]]
            /\ adResp' = 200
       ELSE /\ adResp' = 404
            /\ UNCHANGED ads
    /\ UNCHANGED <<clock, adNext, adSlot, adAcks, adList, offAds>>

\* Requests of one kind on one ad, answered with success or still in flight.
AdCounted(op, id) ==
    adAcks[id][op] + Cardinality({a \in AdSlots : adSlot[a].op = op /\ adSlot[a].id = id})

\* ads.js 272-281 and 302-311: Ad.findById, then ad.clicks += 1 (ad.impressions
\* += 1) on the document in memory
AdCountFind(a, op, id) ==
    /\ adSlot[a].pc = "idle"
    /\ AdCounted(op, id) < MaxCount
    /\ IF id \in DOMAIN ads
       THEN /\ adSlot' = [adSlot EXCEPT ![a] =
                   [IdleAdReq EXCEPT !.pc = "save", !.op = op, !.id = id,
                                     !.doc = [ads[id] EXCEPT ![op] = @ + 1]]]
            /\ UNCHANGED adResp
       ELSE /\ adResp' = 404
            /\ UNCHANGED adSlot
    /\ UNCHANGED <<clock, ads, adNext, adAcks, adList, offAds>>

\* Document.save() of a loaded ad: the pre-save hook, then a $set of the paths
\* that were assigned a new value: the counter and, when the hook changed it,
\* the status
AdSaveDoc(stored, doc, op, now) ==
    LET hooked == AdPreSave(doc, now)
    IN  [stored EXCEPT ![op] = doc[op],
                       !.status = IF hooked.status # doc.status THEN hooked.status ELSE @]

\* ads.js 282-287 and 312-317: await ad.save(), then the 200; the save of a
\* document that was deleted meanwhile throws and is answered with 500
AdCountSave(a) ==
    /\ adSlot[a].pc = "save"
    /\ LET id == adSlot[a].id
           op == adSlot[a].op
       IN  IF id \in DOMAIN ads
           THEN /\ ads' = [ads EXCEPT ![id] = AdSaveDoc(@, adSlot[a].doc, op, clock)]
                /\ adAcks' = [adAcks EXCEPT ![id][op] = @ + 1]
                /\ adResp' = 200
           ELSE /\ adResp' = 500
                /\ UNCHANGED <<ads, adAcks>>
    /\ adSlot' = [adSlot EXCEPT ![a] = IdleAdReq]
    /\ UNCHANGED <<clock, adNext, adList, offAds>>

\* The answer of GET /ads: the query it was asked with and the ads it holds
NoAdList == [active |-> "", ads |-> {}]

\* ads.js 11-48: GET /ads; with active = 'true' the ads with status 'active'
\* whose dates hold now, else all; each with its isActive().  (The order, by
\* priority and createdAt, is left out: there is one ad.)
AdList(active) ==
    /\ LET now == clock
           found == {id \in DOMAIN ads :
                        active = "true" =>
                            /\ ads[id].status = "active"
                            /\ ads[id].startDate <= now
                            /\ ads[id].endDate >= now}
       IN  adList' = [active |-> active,
                      ads |-> {[id |-> id, isActive |-> isActive(ads[id], clock)] :
                                  id \in found}]
    /\ adResp' = 200
    /\ UNCHANGED <<clock, ads, adNext, adSlot, adAcks, offAds>>

InitAds ==
    /\ adList = NoAdList
    /\ ads = <<>>
    /\ adNext = 1
    /\ adSlot = [a \in AdSlots |-> IdleAdReq]
    /\ adResp = 0
    /\ adAcks = [id \in AdIds |-> [clicks |-> 0, impressions |-> 0]]

NextAds ==
    \/ Tick
    \/ \E body \in CreateBodies : AdCreate(body)
    \/ \E a \in AdminSlots, id \in AdIds, body \in UpdateBodies : AdPutBegin(a, id, body)
    \/ \E a \in AdSlots : AdPutUpdate(a)
    \/ \E id \in AdIds : AdDelete(id)
    \/ \E a \in AdSlots, id \in AdIds : AdCountFind(a, "clicks", id)
    \/ \E a \in AdSlots, id \in AdIds : AdCountFind(a, "impressions", id)
    \/ \E a \in AdSlots : AdCountSave(a)

\* Ads created as 'active' before their startDate, then clicked, shown, listed
\* and updated without a status while time passes: an admin's PUT in slot 1
\* beside a visitor's request in slot 2
NextAdsDraft ==
    \/ Tick
    \/ \E body \in {b \in CreateBodies : b.status = "active"} :
          body.startDate > clock /\ AdCreate(body)
    \/ \E id \in AdIds, body \in {b \in UpdateBodies : b.status = ""} :
          AdPutBegin(1, id, body)
    \/ AdPutUpdate(1)
    \/ \E id \in AdIds : AdCountFind(2, "clicks", id)
    \/ \E id \in AdIds : AdCountFind(2, "impressions", id)
    \/ AdCountSave(2)
    \/ \E active \in {"undefined", "true"} : AdList(active)

\* ----------------------------------------------------------------- leads
LeadIds == 1..MaxLeads

\* req.params.id: the id of a lead that is or was or will be stored, or a
\* path segment that does not cast to an ObjectId (0 stands for it)
MalformedIds == {0}
LeadIdInputs == LeadIds \cup MalformedIds

\* req.user._id of the admins
Admins == {"admin1", "admin2"}

\* Lead.js: status enum
LeadStatuses == {"new", "contacted", "closed"}

\* req.body.status and req.body.notes of a PUT; "" and "undefined": not sent
LeadStatusInputs == LeadStatuses \cup {"", "archived"}
LeadNotesInputs == {"undefined", "called back"}

\* A text is the sequence of its characters.
Quote == "\""
Chars == {"a", ",", Quote, "\n"}
Texts == UNION {[1..n -> Chars] : n \in 0..MaxMsgLen}

\* req.body.message of the contact form; the form of the site sends plain text
PlainTexts == {<<>>, <<"a">>}

\* email.js 56-141: sendLeadNotificationEmail(leadData): one attempt to send
\* to the admin, its outcome kept inside the function
sendLeadNotificationEmail(leadData) ==
    /\ mails' = mails \cup {[to |-> "admin", lead |-> leadData]}
    /\ UNCHANGED <<clock, leads, leadNext, leadResp, offLeads>>

\* email.js 148-241: sendThankYouEmail(leadData): one attempt to send to
\* the submitter
sendThankYouEmail(leadData) ==
    /\ mails' = mails \cup {[to |-> "submitter", lead |-> leadData]}
    /\ UNCHANGED <<clock, leads, leadNext, leadResp, offLeads>>

\* leads.js 18-68: POST /leads/create; valid: name and email are there. The
\* router imports nothing of email.js and calls neither of its functions.
LeadCreate(valid, message) ==
    /\ leadNext \in LeadIds
    /\ IF ~valid \/ message = <<>>
       THEN /\ leadResp' = 400
            /\ UNCHANGED <<leads, leadNext>>
       ELSE /\ leads' = leads @@ (leadNext :>
                   [status |-> "new", contactedAt |-> <<>>, contactedBy |-> <<>>,
                    notes |-> "", message |-> message, createdAt |-> clock])
            /\ leadNext' = leadNext + 1
            /\ leadResp' = 201
    /\ UNCHANGED <<clock, mails, offLeads>>

\* leads.js 176-196: updateData of a PUT, built from the body alone
LeadUpdateData(user, status, notes, now) ==
    LET stamp == status = "contacted"
    IN  [status |-> status,
         contactedAt |-> IF stamp THEN <<now>> ELSE <<>>,
         contactedBy |-> IF stamp THEN <<user>> ELSE <<>>,
         notes |-> notes]

\* Lead.findByIdAndUpdate(id, updateData): a $set of the keys of updateData
LeadApplyUpdate(lead, updateData) ==
    [lead EXCEPT
        !.status = IF updateData.status # "" THEN updateData.status ELSE @,
        !.contactedAt = IF updateData.contactedAt # <<>> THEN updateData.contactedAt ELSE @,
        !.contactedBy = IF updateData.contactedBy # <<>> THEN updateData.contactedBy ELSE @,
        !.notes = IF updateData.notes # "undefined" THEN updateData.notes ELSE @]

\* leads.js 141-165: GET /leads/:id; Lead.findById rejects with a CastError
\* for an id that does not cast, and the catch answers 500
LeadGet(id) ==
    /\ leadResp' = IF id \in MalformedIds THEN 500
                   ELSE IF id \notin DOMAIN leads THEN 404 ELSE 200
    /\ UNCHANGED <<clock, leads, leadNext, mails, offLeads>>

\* leads.js 171-223: PUT /leads/:id
LeadUpdate(id, user, status, notes) ==
    /\ IF status # "" /\ status \notin LeadStatuses
       THEN /\ leadResp' = 400
            /\ UNCHANGED leads
       ELSE IF id \in MalformedIds
       THEN /\ leadResp' = 500
            /\ UNCHANGED leads
       ELSE IF id \notin DOMAIN leads
       THEN /\ leadResp' = 404
            /\ UNCHANGED leads
       ELSE /\ leads' = [leads EXCEPT ![id] =
                   LeadApplyUpdate(@, LeadUpdateData(user, status, notes, clock))]
            /\ leadResp' = 200
    /\ UNCHANGED <<clock, leadNext, mails, offLeads>>

\* leads.js 229-251: DELETE /leads/:id
LeadDelete(id) ==
    /\ IF id \in DOMAIN leads
       THEN /\ leads' = [x \in DOMAIN leads \ {id} |-> leads[x]]
            /\ leadResp' = 200
       ELSE /\ leadResp' = IF id \in MalformedIds THEN 500 ELSE 404
            /\ UNCHANGED leads
    /\ UNCHANGED <<clock, leadNext, mails, offLeads>>

InitLeads ==
    /\ leads = <<>>
    /\ leadNext = 1
    /\ leadResp = 0
    /\ mails = {}

NextLeads ==
    \/ Tick
    \/ \E valid \in BOOLEAN, message \in PlainTexts : LeadCreate(valid, message)
    \/ \E id \in LeadIdInputs : LeadGet(id)
    \/ \E id \in LeadIdInputs, user \in Admins, status \in LeadStatusInputs,
          notes \in LeadNotesInputs : LeadUpdate(id, user, status, notes)
    \/ \E id \in LeadIdInputs : LeadDelete(id)

\* ------------------------------------------------------------ analytics
\* str.replace(/"/g, '""')
RECURSIVE EscapeQuotes(_)
EscapeQuotes(str) ==
    IF str = <<>> THEN <<>>
    ELSE (IF Head(str) = Quote THEN <<Quote, Quote>> ELSE <<Head(str)>>)
         \o EscapeQuotes(Tail(str))

\* analytics.js 415: `"${String(cell).replace(/"/g, '""')}"`
CsvCell(cell) == <<Quote>> \o EscapeQuotes(cell) \o <<Quote>>

\* analytics.js 406 and 415: the Message column of a row
LeadMessageCell(message) == CsvCell(EscapeQuotes(message))

\* req.query.startDate and req.query.endDate
WindowBounds == Opt(0..MaxTime)

\* .sort({ createdAt: -1 }): the ids in an order the store may return them
LeadOrders ==
    {o \in [1..Cardinality(DOMAIN leads) -> DOMAIN leads] :
        /\ \A i, j \in DOMAIN o : o[i] = o[j] => i = j
        /\ \A i, j \in DOMAIN o : i < j => leads[o[i]].createdAt >= leads[o[j]].createdAt}

\* analytics.js 394-427: GET /analytics/export/leads; of a row, the Message
\* and the Created At columns
ExportLeads(startDate, endDate, order) ==
    /\ order \in LeadOrders
    /\ exportCsv' = [i \in DOMAIN order |->
           [message |-> LeadMessageCell(leads[order[i]].message),
            createdAt |-> leads[order[i]].createdAt]]
    /\ UNCHANGED <<report, offExport>>

\* The endpoints that take a window, by the last part of their path
Endpoints == {"overview", "traffic", "countries", "pages", "events", "export/visits"}
OnVisits == Endpoints \ {"events"}
OnEvents == {"overview", "events"}

\* A window that would end before its endDate.
MatchesBelowEnd(dateFilter, timestamp) ==
    /\ dateFilter.gte # <<>> => timestamp >= dateFilter.gte[1]
    /\ dateFilter.lte # <<>> => timestamp < dateFilter.lte[1]

\* analytics.js 26-35 (and 89-98, 154-163, 211-220, 266-275, 345-354):
\* dateFilter.timestamp = { $gte: startDate, $lte: endDate }, each bound only
\* when the query carries it
Matches(dateFilter, timestamp) ==
    /\ dateFilter.gte # <<>> => timestamp >= dateFilter.gte[1]
    /\ dateFilter.lte # <<>> => timestamp <= dateFilter.lte[1]

NoReport == [endpoint |-> "", startDate |-> <<>>, endDate |-> <<>>,
             visits |-> {}, events |-> {}]

\* analytics.js 21-78, 84-143, 149-200, 206-255, 261-308, 341-388: a GET of
\* one of the endpoints; of its answer, the visits and the events that pass
\* the date filter and so are counted, grouped or exported (countries drops
\* the visits of unknown country from these)
AnalyticsQuery(endpoint, startDate, endDate) ==
    /\ LET dateFilter == [gte |-> startDate, lte |-> endDate]
       IN  report' = [endpoint |-> endpoint, startDate |-> startDate, endDate |-> endDate,
                      visits |-> IF endpoint \in OnVisits
                                 THEN {i \in DOMAIN visits : Matches(dateFilter, visits[i].timestamp)}
                                 ELSE {},
                      events |-> IF endpoint \in OnEvents
                                 THEN {i \in DOMAIN events : Matches(dateFilter, events[i].timestamp)}
                                 ELSE {}]
    /\ UNCHANGED <<exportCsv, offExport>>

InitExport == exportCsv = <<>> /\ report = NoReport

\* Leads with any text as their message, and their export
NextExport ==
    \/ Tick
    \/ \E message \in Texts : LeadCreate(TRUE, message)
    \/ \E id \in LeadIds : LeadDelete(id)
    \/ \E startDate \in WindowBounds, endDate \in WindowBounds, order \in LeadOrders :
          ExportLeads(startDate, endDate, order)

\* The visitors' requests that are stored, one after another
AnalyticsTrackStep ==
    \/ \E c \in ClientSids, ip \in Ips, ua \in UserAgents :
          \/ VisitReceive(1, [dnt |-> "", alt |-> ""], TRUE, c, ip, ua)
          \/ EventReceive(1, [dnt |-> "", alt |-> ""], TRUE, c, ip, ua)
    \/ VisitFindOne(1)
    \/ TrackGeo(1)
    \/ VisitCreate(1)
    \/ EventCreate(1)
    \/ TrackDone(1)

\* Visits and events at several instants, and then a query of the admin over
\* what was stored: a query reads and stores nothing, so a second one is
\* the first one of another behaviour
NextAnalytics ==
    \/ report = NoReport /\ trk[1].pc = "idle" /\ Tick
    \/ report = NoReport /\ AnalyticsTrackStep
    \/ \E endpoint \in Endpoints, startDate \in WindowBounds, endDate \in WindowBounds :
          /\ report = NoReport
          /\ trk[1].pc = "idle"
          /\ AnalyticsQuery(endpoint, startDate, endDate)

\* ------------------------------------------------------------------ blog
BlogIds == 1..MaxPosts
BlogSlots == {1, 2}
Slugs == {"hello"}

\* part_001 142-146: status enum; "undefined": the field is not there
BlogStatuses == {"draft", "published", "scheduled"}
BlogStatusInputs == BlogStatuses \cup {"undefined"}

\* req.body.published as the JSON and urlencoded parsers deliver it: not
\* sent, the booleans, and the strings 'true' and 'false'
PublishedVals == {"undefined", "true", "false", "'true'", "'false'"}

\* The value as a condition of the handler: every non-empty string is truthy
Truthy(v) == v \in {"true", "'true'", "'false'"}

\* part_001 80-83: the value as mongoose casts it to the Boolean path
CastBoolean(v) == v \in {"true", "'true'"}

\* blog.js 187-189: rating is an integer from 1 to 5
MinRating == 1
MaxRating == 5
RatingInputs == Opt({MinRating - 1, MinRating, MaxRating, MaxRating + 1})

\* An average that would drop the second decimal.
TruncTenths(ratingsTotal, ratingsCount) == (10 * ratingsTotal) \div ratingsCount

\* blog.js 83, 147, 253, 303: Math.round((ratingsTotal / ratingsCount) * 10) / 10,
\* in tenths; Math.round takes a half upwards
RoundTenths(ratingsTotal, ratingsCount) ==
    (20 * ratingsTotal + ratingsCount) \div (2 * ratingsCount)

RatingsAverage(ratingsCount, ratingsTotal) ==
    IF ratingsCount > 0 THEN RoundTenths(ratingsTotal, ratingsCount) ELSE 0

\* The stats of a response; NoStats: the response carries none
NoStats == <<>>
StatsOf(post) ==
    <<[commentsCount |-> post.commentsCount, ratingsCount |-> post.ratingsCount,
       ratingsTotal |-> post.ratingsTotal,
       ratingsAverage |-> RatingsAverage(post.ratingsCount, post.ratingsTotal)]>>

NoPost ==
    [slug |-> "", status |-> "undefined", published |-> FALSE, views |-> 0,
     commentsCount |-> 0, ratingsCount |-> 0, ratingsTotal |-> 0,
     publishedAt |-> <<>>, scheduledAt |-> <<>>, category |-> ""]
NoBlogBody == [slug |-> "", status |-> "undefined", published |-> "undefined",
               publishedAt |-> <<>>, scheduledAt |-> <<>>, category |-> ""]
IdleBlogAdmin == [pc |-> "idle", id |-> 0, body |-> NoBlogBody]

\* The admin's requests in flight; the slugs an admin sends when renaming
BlogAdminSlots == {1, 2}
SlugInputs == {"hello", "world"}
\* counted: whether the request's Blog.updateOne matched the post
IdleBlogReq ==
    [pc |-> "idle", kind |-> "", id |-> 0, doc |-> NoPost, rating |-> <<>>,
     counted |-> FALSE]

\* Bodies without dates, and bodies that may carry a publishedAt and a
\* scheduledAt
BlogCreateBodies == [slug : Slugs, status : BlogStatusInputs, published : PublishedVals,
                     publishedAt : {<<>>}, scheduledAt : {<<>>}, category : {"web"}]
BlogUpdateBodies == [status : BlogStatusInputs, published : PublishedVals,
                     publishedAt : {<<>>}, scheduledAt : {<<>>}]
BlogDatedCreateBodies ==
    [slug : Slugs, status : BlogStatusInputs, published : {"undefined", "true"},
     publishedAt : Opt({0}), scheduledAt : Opt({MaxTime}), category : {"web"}]
BlogDatedUpdateBodies ==
    [status : BlogStatusInputs, published : PublishedVals,
     publishedAt : Opt({0}), scheduledAt : Opt({MaxTime})]

\* Blog.findOne({ slug })
FindBySlug(slug) == {id \in DOMAIN posts : posts[id].slug = slug}

\* part_001 208-230: the pre-save hook
BlogPreSave(doc) ==
    LET stamped == IF doc.publishedAt = <<>> THEN <<clock>> ELSE doc.publishedAt
    IN  IF doc.status = "published"
        THEN [doc EXCEPT !.published = TRUE, !.publishedAt = stamped]
        ELSE IF doc.status \in {"draft", "scheduled"} THEN [doc EXCEPT !.published = FALSE]
        ELSE IF doc.published
        THEN [doc EXCEPT !.status = "published", !.publishedAt = stamped]
        ELSE doc

\* blog.js 370-403: postData of a POST
BlogPostData(body) ==
    LET status == IF body.status # "undefined" THEN body.status
                  ELSE IF Truthy(body.published) THEN "published" ELSE "draft"
        publishedAt == IF status = "scheduled" /\ body.scheduledAt # <<>>
                       THEN body.scheduledAt
                       ELSE IF status = "published" /\ body.publishedAt = <<>>
                       THEN <<clock>>
                       ELSE body.publishedAt
    IN  [NoPost EXCEPT !.slug = body.slug, !.status = status,
                       !.published = (status = "published"),
                       !.publishedAt = publishedAt, !.scheduledAt = body.scheduledAt,
                       !.category = body.category]

\* blog.js 326-349: POST /blog up to the answer of Blog.findOne({ slug })
BlogCreateBegin(a, body) ==
    /\ blogAdmin[a].pc = "idle"
    /\ blogNext + Cardinality({x \in BlogAdminSlots : blogAdmin[x].pc = "create"}) \in BlogIds
    /\ IF FindBySlug(body.slug) # {}
       THEN /\ blogResp' = 400
            /\ UNCHANGED blogAdmin
       ELSE /\ blogAdmin' = [blogAdmin EXCEPT ![a] = [pc |-> "create", id |-> 0, body |-> body]]
            /\ UNCHANGED blogResp
    /\ UNCHANGED <<posts, blogNext, comments, blogSlot, blogStats, blogCats, offBlog>>

\* blog.js 351-419: Blog.create(postData); the unique index on slug rejects
\* a slug taken since the check
BlogCreateEnd(a) ==
    /\ blogAdmin[a].pc = "create"
    /\ IF FindBySlug(blogAdmin[a].body.slug) # {}
       THEN /\ blogResp' = 500
            /\ UNCHANGED <<posts, blogNext>>
       ELSE /\ posts' = posts @@ (blogNext :> BlogPreSave(BlogPostData(blogAdmin[a].body)))
            /\ blogNext' = blogNext + 1
            /\ blogResp' = 201
    /\ blogAdmin' = [blogAdmin EXCEPT ![a] = IdleBlogAdmin]
    /\ UNCHANGED <<comments, blogSlot, blogStats, blogCats, offBlog>>

\* blog.js 481-500: status and published of updateData
\* blog.js 486-488, 497-499: updateData.publishedAt = new Date() unless the
\* body carries a publishedAt; the stored post is not looked at
BlogStamp(body) ==
    IF body.publishedAt # <<>> THEN body.publishedAt ELSE <<clock>>

\* blog.js 466-500: status, published, publishedAt and scheduledAt of
\* updateData
BlogUpdateData(body) ==
    IF body.status # "undefined"
    THEN [status |-> body.status,
          published |-> IF body.status = "published" THEN "true" ELSE "false",
          publishedAt |-> IF body.status = "scheduled" /\ body.scheduledAt # <<>>
                          THEN body.scheduledAt
                          ELSE IF body.status = "published" THEN BlogStamp(body)
                          ELSE body.publishedAt,
          scheduledAt |-> body.scheduledAt]
    ELSE IF body.published # "undefined"
    THEN [status |-> IF Truthy(body.published) THEN "published" ELSE "draft",
          published |-> body.published,
          publishedAt |-> IF Truthy(body.published) THEN BlogStamp(body)
                          ELSE body.publishedAt,
          scheduledAt |-> body.scheduledAt]
    ELSE [status |-> "undefined", published |-> "undefined",
          publishedAt |-> body.publishedAt, scheduledAt |-> body.scheduledAt]

\* Blog.findByIdAndUpdate(id, updateData): a $set of the keys of updateData,
\* each cast to the type of its path; no save hook runs
BlogApplyUpdate(post, updateData) ==
    [post EXCEPT
        !.status = IF updateData.status # "undefined" THEN updateData.status ELSE @,
        !.published = IF updateData.published # "undefined"
                      THEN CastBoolean(updateData.published) ELSE @,
        !.publishedAt = IF updateData.publishedAt # <<>> THEN updateData.publishedAt ELSE @,
        !.scheduledAt = IF updateData.scheduledAt # <<>> THEN updateData.scheduledAt ELSE @]

\* blog.js 424-537: PUT /blog/:id with a body that carries no slug
BlogUpdate(id, body) ==
    /\ IF id \in DOMAIN posts
       THEN /\ posts' = [posts EXCEPT ![id] = BlogApplyUpdate(@, BlogUpdateData(body))]
            /\ blogResp' = 200
       ELSE /\ blogResp' = 404
            /\ UNCHANGED posts
    /\ UNCHANGED <<blogNext, comments, blogAdmin, blogSlot, blogStats, blogCats, offBlog>>

\* Blog.findOne({ slug, _id: { $ne: id } })
SlugTaken(slug, id) == \E x \in DOMAIN posts : x # id /\ posts[x].slug = slug

\* blog.js 424-451: PUT /blog/:id with a slug in the body, up to the answer
\* of the duplicate check
BlogPutSlugBegin(a, id, body) ==
    /\ blogAdmin[a].pc = "idle"
    /\ IF SlugTaken(body.slug, id)
       THEN /\ blogResp' = 400
            /\ UNCHANGED blogAdmin
       ELSE /\ blogAdmin' = [blogAdmin EXCEPT ![a] = [pc |-> "update", id |-> id, body |-> body]]
            /\ UNCHANGED blogResp
    /\ UNCHANGED <<posts, blogNext, comments, blogSlot, blogStats, blogCats, offBlog>>

\* blog.js 453-537: Blog.findByIdAndUpdate(id, updateData); the unique index
\* on slug rejects a slug taken since the check, and the catch answers 500
BlogPutSlugEnd(a) ==
    /\ blogAdmin[a].pc = "update"
    /\ LET id == blogAdmin[a].id
           body == blogAdmin[a].body
       IN  IF id \notin DOMAIN posts
           THEN /\ blogResp' = 404
                /\ UNCHANGED posts
           ELSE IF SlugTaken(body.slug, id)
           THEN /\ blogResp' = 500
                /\ UNCHANGED posts
           ELSE /\ posts' = [posts EXCEPT ![id] =
                       [BlogApplyUpdate(@, BlogUpdateData(body)) EXCEPT !.slug = body.slug]]
                /\ blogResp' = 200
    /\ blogAdmin' = [blogAdmin EXCEPT ![a] = IdleBlogAdmin]
    /\ UNCHANGED <<blogNext, comments, blogSlot, blogStats, blogCats, offBlog>>

\* blog.js 542-564: DELETE /blog/:id
BlogDelete(id) ==
    /\ IF id \in DOMAIN posts
       THEN /\ posts' = [x \in DOMAIN posts \ {id} |-> posts[x]]
            /\ blogResp' = 200
       ELSE /\ blogResp' = 404
            /\ UNCHANGED posts
    /\ UNCHANGED <<blogNext, comments, blogAdmin, blogSlot, blogStats, blogCats, offBlog>>

\* Views of one post, stored or still to be saved by a request in flight.
ViewsCounted(id) ==
    posts[id].views + Cardinality({s \in BlogSlots : blogSlot[s].kind = "view" /\ blogSlot[s].id = id})

\* blog.js 286-298: GET /blog/:slug up to post.views += 1 on the loaded document
ViewFind(s, slug) ==
    /\ blogSlot[s].pc = "idle"
    /\ IF FindBySlug(slug) = {}
       THEN /\ blogResp' = 404
            /\ UNCHANGED blogSlot
       ELSE LET id == CHOOSE x \in FindBySlug(slug) : TRUE
            IN  /\ ViewsCounted(id) < MaxCount
                /\ blogSlot' = [blogSlot EXCEPT ![s] =
                       [IdleBlogReq EXCEPT !.pc = "save", !.kind = "view", !.id = id,
                                           !.doc = [posts[id] EXCEPT !.views = @ + 1]]]
                /\ UNCHANGED blogResp
    /\ UNCHANGED <<posts, blogNext, comments, blogAdmin, blogStats, blogCats, offBlog>>

\* A save that would write the whole loaded document back, not the paths
\* that changed.
BlogSaveWhole(stored, doc) == BlogPreSave(doc)

\* Document.save() of a loaded post: the pre-save hook, then a $set of the
\* paths that were assigned a new value: views and what the hook changed
BlogSaveDoc(stored, doc) ==
    LET hooked == BlogPreSave(doc)
    IN  [stored EXCEPT
            !.views = doc.views,
            !.status = IF hooked.status # doc.status THEN hooked.status ELSE @,
            !.published = IF hooked.published # doc.published THEN hooked.published ELSE @,
            !.publishedAt = IF hooked.publishedAt # doc.publishedAt
                            THEN hooked.publishedAt ELSE @]

\* blog.js 299-313: await post.save(), then the 200; the save of a post
\* that was deleted meanwhile throws and is answered with 500
ViewSave(s) ==
    /\ blogSlot[s].pc = "save"
    /\ LET id == blogSlot[s].id
       IN  IF id \in DOMAIN posts
           THEN /\ posts' = [posts EXCEPT ![id] = BlogSaveDoc(@, blogSlot[s].doc)]
                /\ blogResp' = 200
                /\ blogStats' = StatsOf(blogSlot[s].doc)
           ELSE /\ blogResp' = 500
                /\ UNCHANGED <<posts, blogStats>>
    /\ blogSlot' = [blogSlot EXCEPT ![s] = IdleBlogReq]
    /\ UNCHANGED <<blogNext, comments, blogAdmin, blogCats, offBlog>>

\* Comments stored or about to be stored by a request in flight.
CommentsCounted ==
    Len(comments) + Cardinality({s \in BlogSlots : blogSlot[s].pc = "create"})

\* A comment handler that would look for the post and not at its published flag.
CommentFindUngated(s, slug, rating, website, valid) ==
    /\ blogSlot[s].pc = "idle"
    /\ CommentsCounted < MaxComments
    /\ IF ~valid \/ (rating # <<>> /\ rating[1] \notin MinRating..MaxRating)
       THEN /\ blogResp' = 400
            /\ UNCHANGED blogSlot
       ELSE IF website
       THEN /\ blogResp' = 201
            /\ UNCHANGED blogSlot
       ELSE IF FindBySlug(slug) = {}
       THEN /\ blogResp' = 404
            /\ UNCHANGED blogSlot
       ELSE /\ blogSlot' = [blogSlot EXCEPT ![s] =
                   [IdleBlogReq EXCEPT !.pc = "create", !.kind = "comment",
                                       !.id = CHOOSE x \in FindBySlug(slug) : TRUE,
                                       !.rating = rating]]
            /\ UNCHANGED blogResp
    /\ UNCHANGED <<posts, blogNext, comments, blogAdmin, blogStats, blogCats, offBlog>>

\* A comment handler that would look up the post before the honeypot field.
CommentFindLateHoneypot(s, slug, rating, website, valid) ==
    /\ blogSlot[s].pc = "idle"
    /\ CommentsCounted < MaxComments
    /\ IF ~valid \/ (rating # <<>> /\ rating[1] \notin MinRating..MaxRating)
       THEN /\ blogResp' = 400
            /\ UNCHANGED blogSlot
       ELSE IF \A id \in FindBySlug(slug) : ~posts[id].published
       THEN /\ blogResp' = 404
            /\ UNCHANGED blogSlot
       ELSE IF website
       THEN /\ blogResp' = 201
            /\ UNCHANGED blogSlot
       ELSE /\ blogSlot' = [blogSlot EXCEPT ![s] =
                   [IdleBlogReq EXCEPT !.pc = "create", !.kind = "comment",
                                       !.id = CHOOSE x \in FindBySlug(slug) : TRUE,
                                       !.rating = rating]]
            /\ UNCHANGED blogResp
    /\ UNCHANGED <<posts, blogNext, comments, blogAdmin, blogStats, blogCats, offBlog>>

\* blog.js 179-229: POST /blog/:slug/comments up to the answer of Blog.findOne
CommentFind(s, slug, rating, website, valid) ==
    /\ blogSlot[s].pc = "idle"
    /\ CommentsCounted < MaxComments
    /\ IF ~valid \/ (rating # <<>> /\ rating[1] \notin MinRating..MaxRating)
       THEN /\ blogResp' = 400
            /\ UNCHANGED blogSlot
       ELSE IF website
       THEN /\ blogResp' = 201
            /\ UNCHANGED blogSlot
       ELSE IF \A id \in FindBySlug(slug) : ~posts[id].published
       THEN /\ blogResp' = 404
            /\ UNCHANGED blogSlot
       ELSE /\ blogSlot' = [blogSlot EXCEPT ![s] =
                   [IdleBlogReq EXCEPT !.pc = "create", !.kind = "comment",
                                       !.id = CHOOSE x \in FindBySlug(slug) : TRUE,
                                       !.rating = rating]]
            /\ UNCHANGED blogResp
    /\ UNCHANGED <<posts, blogNext, comments, blogAdmin, blogStats, blogCats, offBlog>>

\* blog.js 231-240: Comment.create
CommentCreate(s) ==
    /\ blogSlot[s].pc = "create"
    /\ comments' = Append(comments, [blog |-> blogSlot[s].id, rating |-> blogSlot[s].rating])
    /\ blogSlot' = [blogSlot EXCEPT ![s].pc = "inc"]
    /\ UNCHANGED <<posts, blogNext, blogAdmin, blogResp, blogStats, blogCats, offBlog>>

\* Blog.updateOne({ _id }, { $inc }): the increments, applied in the store
IncCounters(post, rating) ==
    [post EXCEPT
        !.commentsCount = @ + 1,
        !.ratingsCount = IF rating # <<>> THEN @ + 1 ELSE @,
        !.ratingsTotal = IF rating # <<>> THEN @ + rating[1] ELSE @]

\* blog.js 242-247: the update of the post's counters; it matches no
\* document when the post was deleted meanwhile
CommentInc(s) ==
    /\ blogSlot[s].pc = "inc"
    /\ LET id == blogSlot[s].id
       IN  IF id \in DOMAIN posts
           THEN posts' = [posts EXCEPT ![id] = IncCounters(@, blogSlot[s].rating)]
           ELSE UNCHANGED posts
    /\ blogSlot' = [blogSlot EXCEPT ![s].pc = "refetch",
                                    ![s].counted = blogSlot[s].id \in DOMAIN posts]
    /\ UNCHANGED <<blogNext, comments, blogAdmin, blogResp, blogStats, blogCats, offBlog>>

\* blog.js 274-280: Comment.create, Blog.updateOne or Blog.findById rejects
\* and the catch block answers 500; what was written before stays written
CommentFails(s) ==
    /\ blogSlot[s].kind = "comment"
    /\ blogSlot[s].pc \in {"create", "inc", "refetch"}
    /\ blogResp' = 500
    /\ blogSlot' = [blogSlot EXCEPT ![s] = IdleBlogReq]
    /\ UNCHANGED <<posts, blogNext, comments, blogAdmin, blogStats, blogCats, offBlog>>

\* blog.js 249-273: Blog.findById for the stats, then the 201; a post that
\* was deleted meanwhile is reported with counters 0
CommentRefetch(s) ==
    /\ blogSlot[s].pc = "refetch"
    /\ blogResp' = 201
    /\ LET id == blogSlot[s].id
           updated == IF id \in DOMAIN posts THEN posts[id] ELSE NoPost
       IN  blogStats' = StatsOf(updated)
    /\ blogSlot' = [blogSlot EXCEPT ![s] = IdleBlogReq]
    /\ UNCHANGED <<posts, blogNext, comments, blogAdmin, blogCats, offBlog>>

\* blog.js 109-166: GET /blog/:slug/comments
CommentList(slug) ==
    /\ IF \A id \in FindBySlug(slug) : ~posts[id].published
       THEN /\ blogResp' = 404
            /\ UNCHANGED blogStats
       ELSE /\ blogResp' = 200
            /\ blogStats' = StatsOf(posts[CHOOSE x \in FindBySlug(slug) : TRUE])
    /\ UNCHANGED <<posts, blogNext, comments, blogAdmin, blogSlot, blogCats, offBlog>>

\* The posts of a list in the order of their ids
RECURSIVE ListStats(_)
ListStats(I) ==
    IF I = {} THEN <<>>
    ELSE LET id == CHOOSE x \in I : \A y \in I : x <= y
         IN  StatsOf(posts[id]) \o ListStats(I \ {id})

\* blog.js 21-96: GET /blog, with published = 'true' or without a filter
BlogList(publishedOnly) ==
    /\ blogResp' = 200
    /\ blogStats' = ListStats({id \in DOMAIN posts : publishedOnly => posts[id].published})
    /\ UNCHANGED <<posts, blogNext, comments, blogAdmin, blogSlot, blogCats, offBlog>>

\* The categories an admin files posts under, and their order by name
CategoryNames == {"ai", "web"}
NameRank == ("ai" :> 1) @@ ("web" :> 2)

\* blog.js 601-615: Blog.distinct('category', { published: true }) and the
\* countDocuments of each
CategoryCount(category) ==
    Cardinality({id \in DOMAIN posts : posts[id].published /\ posts[id].category = category})

\* blog.js 618-623: by count, the larger first, and then by name
RECURSIVE SortCategories(_)
SortCategories(C) ==
    IF C = {} THEN <<>>
    ELSE LET first == CHOOSE c \in C : \A d \in C \ {c} :
                         \/ CategoryCount(c) > CategoryCount(d)
                         \/ CategoryCount(c) = CategoryCount(d) /\ NameRank[c] < NameRank[d]
         IN  <<[name |-> first, count |-> CategoryCount(first)]>> \o SortCategories(C \ {first})

\* blog.js 599-639: the handler registered for GET /categories
BlogCategories ==
    /\ blogResp' = 200
    /\ blogCats' = SortCategories({c \in CategoryNames : CategoryCount(c) > 0})
    /\ UNCHANGED <<posts, blogNext, comments, blogAdmin, blogSlot, blogStats, offBlog>>

\* The GET routes of the router in the order of their registration (blog.js
\* 21, 109, 286, 599), and the paths a client asks for, by their segments
GetRoutes == <<"/", "/:slug/comments", "/:slug", "/categories">>
GetPaths == {<<>>, <<"hello">>, <<"hello", "comments">>, <<"categories">>}

\* The path matches the pattern of the route: a parameter takes any segment
RouteMatches(route, path) ==
    CASE route = "/" -> path = <<>>
      [] route = "/:slug/comments" -> Len(path) = 2 /\ path[2] = "comments"
      [] route = "/:slug" -> Len(path) = 1
      [] route = "/categories" -> path = <<"categories">>

\* express.Router: the first route registered whose pattern matches; none of
\* the handlers passes the request on
Dispatch(path) ==
    GetRoutes[CHOOSE i \in DOMAIN GetRoutes :
        /\ RouteMatches(GetRoutes[i], path)
        /\ \A j \in 1..(i - 1) : ~RouteMatches(GetRoutes[j], path)]

\* A GET on the blog router, handled in slot s
BlogGet(s, path) ==
    LET route == Dispatch(path)
    IN  IF route = "/" THEN BlogList(FALSE)
        ELSE IF route = "/:slug/comments" THEN CommentList(path[1])
        ELSE IF route = "/:slug" THEN ViewFind(s, path[1])
        ELSE BlogCategories

InitBlog ==
    /\ posts = <<>>
    /\ blogNext = 1
    /\ comments = <<>>
    /\ blogAdmin = [a \in BlogAdminSlots |-> IdleBlogAdmin]
    /\ blogSlot = [s \in BlogSlots |-> IdleBlogReq]
    /\ blogResp = 0
    /\ blogStats = NoStats
    /\ blogCats = <<>>

\* The steps of the public requests handled in slot s
BlogPublicStep(s) ==
    \/ \E slug \in Slugs : ViewFind(s, slug)
    \/ ViewSave(s)
    \/ \E slug \in Slugs, rating \in RatingInputs, website \in BOOLEAN, valid \in BOOLEAN :
          CommentFind(s, slug, rating, website, valid)
    \/ CommentCreate(s)
    \/ CommentInc(s)
    \/ CommentRefetch(s)

\* POST /blog, handled in the admin's slot a
BlogCreateStep(a) ==
    \/ \E body \in BlogCreateBodies : BlogCreateBegin(a, body)
    \/ BlogCreateEnd(a)

\* The admin's writes, and the public requests one after another
NextBlogSeq ==
    \/ BlogCreateStep(1)
    \/ \E id \in BlogIds, body \in BlogUpdateBodies : BlogUpdate(id, body)
    \/ \E id \in BlogIds : BlogDelete(id)
    \/ BlogPublicStep(1)

\* Posts that are created and then only read and commented, by requests
\* that overlap
\* The bodies of the admin's requests that name a slug
BlogSlugBodies == [slug : SlugInputs, status : {"undefined"}, published : {"undefined"},
                   publishedAt : {<<>>}, scheduledAt : {<<>>}, category : {"web"}]

\* POST /blog and PUT /blog/:id with a slug, by requests that overlap
NextBlogSlugs ==
    \/ \E a \in BlogAdminSlots, body \in BlogSlugBodies : BlogCreateBegin(a, body)
    \/ \E a \in BlogAdminSlots : BlogCreateEnd(a)
    \/ \E a \in BlogAdminSlots, id \in BlogIds, body \in BlogSlugBodies :
          BlogPutSlugBegin(a, id, body)
    \/ \E a \in BlogAdminSlots : BlogPutSlugEnd(a)
    \/ \E id \in BlogIds : BlogDelete(id)

\* Posts with dates, written by the admin while time passes and visitors
\* view and comment
NextBlogDated ==
    \/ Tick
    \/ \E body \in BlogDatedCreateBodies : BlogCreateBegin(1, body)
    \/ BlogCreateEnd(1)
    \/ \E id \in BlogIds, body \in BlogDatedUpdateBodies : BlogUpdate(id, body)
    \/ \E slug \in Slugs : ViewFind(1, slug)
    \/ ViewSave(1)
    \/ \E slug \in Slugs : CommentFind(1, slug, <<>>, FALSE, TRUE)
    \/ CommentCreate(1)
    \/ CommentInc(1)
    \/ CommentRefetch(1)

\* Posts that are created, read, listed and commented, one request at a time
NextBlogStats ==
    \/ BlogCreateStep(1)
    \/ BlogPublicStep(1)
    \/ \E slug \in Slugs : CommentList(slug)
    \/ \E publishedOnly \in BOOLEAN : BlogList(publishedOnly)

\* Posts under several slugs and categories, and GETs by their paths
BlogRoutedBodies ==
    [slug : {"hello", "categories"}, status : {"draft", "published"},
     published : {"undefined"}, publishedAt : {<<>>}, scheduledAt : {<<>>},
     category : CategoryNames]

NextBlogRoutes ==
    \/ \E body \in BlogRoutedBodies : BlogCreateBegin(1, body)
    \/ BlogCreateEnd(1)
    \/ \E path \in GetPaths : BlogGet(1, path)
    \/ ViewSave(1)

\* Comments on posts the admin creates and deletes, with the storage failing
\* at any of the handler's awaits
NextBlogAtomic ==
    \/ BlogCreateStep(1)
    \/ \E id \in BlogIds : BlogDelete(id)
    \/ \E slug \in Slugs, rating \in RatingInputs :
          CommentFind(1, slug, rating, FALSE, TRUE)
    \/ CommentCreate(1)
    \/ CommentInc(1)
    \/ CommentRefetch(1)
    \/ CommentFails(1)

NextBlogCounters ==
    \/ BlogCreateStep(1)
    \/ \E s \in BlogSlots : BlogPublicStep(s)

\* ------------------------------------------------------- specifications
Init ==
    /\ clock = 0
    /\ tz \in TzOffsets
    /\ InitTrack
    /\ InitAds
    /\ InitLeads
    /\ InitBlog
    /\ InitExport
    /\ InitGeo
    /\ InitSess

\* Requests handled one after another: one slot, which takes the next request
\* only when it has answered the last.
NextTrackSeq == Tick \/ TrackStep(1)

SpecTrackSeq == Init /\ [][NextTrackSeq]_vars

\* Overlapping visit submissions: every slot takes tracked, valid visits that
\* carry the client's session id
VisitStep(r) ==
    \/ \E c \in ClientSids, ip \in Ips, ua \in UserAgents :
          VisitReceive(r, [dnt |-> "", alt |-> ""], TRUE, c, ip, ua)
    \/ VisitFindOne(r)
    \/ TrackGeo(r)
    \/ VisitCreate(r)
    \/ TrackDone(r)

NextTrackRace == Tick \/ \E r \in TrackSlots : VisitStep(r)

SpecTrackRace == Init /\ [][NextTrackRace]_vars

SpecAds == Init /\ [][NextAds]_vars

SpecAdsDraft == Init /\ [][NextAdsDraft]_vars

SpecLeads == Init /\ [][NextLeads]_vars

\* The offsets a server's zone can have; a clock that moves between the
\* requests only, so that a request is stored in the tick it arrived in
ServerZones == {0, 1}
TickIdle == trk[1].pc = "idle" /\ Tick
InitZones ==
    /\ clock = 0
    /\ tz \in ServerZones
    /\ InitTrack
    /\ InitAds
    /\ InitLeads
    /\ InitBlog
    /\ InitExport
    /\ InitGeo
    /\ InitSess

NextTrackZones == TickIdle \/ TrackStep(1)

SpecTrackZones == InitZones /\ [][NextTrackZones]_vars

SpecSess == Init /\ [][NextSess]_vars

SpecGeo == Init /\ [][NextGeo]_vars

\* The event loop runs every handler step and every timer that is due; the
\* lookup services owe nothing.
SpecGeoLive == SpecGeo /\ WF_vars(GeoCallerStep(1)) /\ WF_vars(GeoProgramStep(1))

SpecExport == Init /\ [][NextExport]_vars

SpecAnalytics == Init /\ [][NextAnalytics]_vars

SpecBlogSeq == Init /\ [][NextBlogSeq]_vars

SpecBlogSlugs == Init /\ [][NextBlogSlugs]_vars

SpecBlogCounters == Init /\ [][NextBlogCounters]_vars

SpecBlogStats == Init /\ [][NextBlogStats]_vars

SpecBlogRoutes == Init /\ [][NextBlogRoutes]_vars

SpecBlogDated == Init /\ [][NextBlogDated]_vars

SpecBlogAtomic == Init /\ [][NextBlogAtomic]_vars

\* ------------------------------------------------------ tracking: claims
\* The signal as the claim states it: either header is '1' or 'true'.
CarriesDnt(hdr) == hdr.dnt \in {"1", "true"} \/ hdr.alt \in {"1", "true"}

\* C1: every step of the handling of a visit or event request that carries a
\* Do-Not-Track signal leaves the Visit and Event collections as they were and
\* ends the request with a 200.
C1_DntNeverTracked ==
    [][\A r \in TrackSlots :
          (CarriesDnt(trk'[r].hdr) /\ trk'[r] # trk[r])
              => /\ visits' = visits
                 /\ events' = events
                 /\ trk'[r].pc = "done"
                 /\ trk'[r].status = 200]_vars

\* C2: requests handled one after another.  Among the stored visits of one
\* client-supplied session id, no visit stored after another of the same
\* calendar day is unique, and a calendar day in which a visit was received and
\* stored has its unique visit (the first of that day), whatever the day
\* before held; the 201 returns the session id and the flag that were stored.
C2_UniqueOncePerDay ==
    /\ \A i \in 1..Len(visits) : \A j \in 1..(i - 1) :
          (/\ visits[i].sessionId \in ClientSids
           /\ visits[j].sessionId = visits[i].sessionId
           /\ LocalDate(visits[j].timestamp) = LocalDate(visits[i].timestamp))
              => ~visits[i].isUnique
    /\ \A r \in TrackSlots :
          (trk[r].pc = "done" /\ trk[r].kind = "visit" /\ trk[r].status = 201) =>
              LET stored == visits[Len(visits)]
              IN  /\ trk[r].respSid = stored.sessionId
                  /\ trk[r].respUnique = stored.isUnique
                  /\ (/\ stored.sessionId \in ClientSids
                      /\ LocalDate(trk[r].today) = LocalDate(stored.timestamp))
                         => \E i \in 1..Len(visits) :
                               /\ visits[i].sessionId = stored.sessionId
                               /\ LocalDate(visits[i].timestamp) = LocalDate(stored.timestamp)
                               /\ visits[i].isUnique

\* A visit request that has run its query and has not stored its visit
PastQuery(r) == trk[r].kind = "visit" /\ trk[r].pc \in {"geo", "create"}

\* No visit of the session is stored for the day that starts at today
NoneStoredSince(sid, today) ==
    \A i \in 1..Len(visits) :
        ~(visits[i].sessionId = sid /\ visits[i].timestamp >= today)

\* C26: two visit requests of one session id on one day that have both run
\* their query before any visit of the session was stored that day both carry
\* isUnique = true, and the visit a request stores carries the flag its query
\* gave it; so two unique visits of one session on one day can be reached.
C26_RaceBothUnique ==
    [][(\A r, q \in TrackSlots :
           (/\ r # q
            /\ PastQuery(r) /\ PastQuery(q)
            /\ trk[r].sid = trk[q].sid
            /\ trk[r].today = trk[q].today
            /\ NoneStoredSince(trk[r].sid, trk[r].today))
               => (trk[r].isUnique /\ trk[q].isUnique))
       /\ (visits' # visits
              => \E r \in TrackSlots :
                     /\ trk[r].pc = "create"
                     /\ trk'[r].pc = "done"
                     /\ visits'[Len(visits')].sessionId = trk[r].sid
                     /\ visits'[Len(visits')].isUnique = trk[r].isUnique)]_vars

\* C26, the case: two visits of one session id stored on one day, both unique
C26_Witness ==
    \E i, j \in 1..Len(visits) :
        /\ i < j
        /\ visits[i].sessionId = visits[j].sessionId
        /\ UtcDate(visits[i].timestamp) = UtcDate(visits[j].timestamp)
        /\ visits[i].isUnique /\ visits[j].isUnique

\* --------------------------------------------------------- leads: claims
\* C5: contactedAt and contactedBy are set by the first update that moves a
\* lead to 'contacted', to the time of that update and the acting admin, and
\* no later update of the lead changes either of them.
C5_ContactedStampedOnce ==
    [][\A id \in DOMAIN leads \cap DOMAIN leads' :
          /\ leads[id].contactedAt # <<>> =>
                /\ leads'[id].contactedAt = leads[id].contactedAt
                /\ leads'[id].contactedBy = leads[id].contactedBy
          /\ (leads[id].contactedAt = <<>> /\ leads'[id].status = "contacted") =>
                /\ leads'[id].contactedAt = <<clock>>
                /\ leads'[id].contactedBy # <<>>]_vars

\* C23: every stored lead has a status of the enum and a new lead has status
\* 'new'; a PUT with another status value is answered with 400 and changes
\* no lead; a PUT without a status leaves status, contactedAt and contactedBy
\* of its lead as they are; a PUT (with an acceptable status), a GET and a
\* DELETE on an id that resolves to no lead are answered with 404 and change
\* no lead.
C23_LeadStatusAndNotFound ==
    [][/\ \A id \in DOMAIN leads' : leads'[id].status \in LeadStatuses
       /\ \A id \in DOMAIN leads' \ DOMAIN leads : leads'[id].status = "new"
       /\ \A id \in LeadIdInputs, user \in Admins, status \in LeadStatusInputs,
             notes \in LeadNotesInputs :
             LeadUpdate(id, user, status, notes) =>
                /\ status \notin LeadStatuses \cup {""} =>
                       (leadResp' = 400 /\ leads' = leads)
                /\ (status = "" /\ id \in DOMAIN leads) =>
                       /\ leads'[id].status = leads[id].status
                       /\ leads'[id].contactedAt = leads[id].contactedAt
                       /\ leads'[id].contactedBy = leads[id].contactedBy
                /\ (status \in LeadStatuses \cup {""} /\ id \notin DOMAIN leads) =>
                       (leadResp' = 404 /\ leads' = leads)
       /\ \A id \in LeadIdInputs :
             (id \notin DOMAIN leads /\ (LeadGet(id) \/ LeadDelete(id))) =>
                (leadResp' = 404 /\ leads' = leads)]_vars

\* C22: every lead that was stored by POST /leads/create has an attempt to
\* notify the admin and an attempt to thank the submitter.
C22_MailsAttempted ==
    \A id \in DOMAIN leads :
        {[to |-> "admin", lead |-> id], [to |-> "submitter", lead |-> id]} \subseteq mails

\* ----------------------------------------------------- session id: claims
\* How many of the address, the user agent and the UTC date differ
SessDiffs(a, b) ==
    (IF a.ip # b.ip THEN 1 ELSE 0) + (IF a.userAgent # b.userAgent THEN 1 ELSE 0)
        + (IF UtcDate(a.timestamp) # UtcDate(b.timestamp) THEN 1 ELSE 0)

\* C19: two calls with the same address and user agent and instants of the
\* same UTC date give the same identifier, whatever the time of day; two
\* calls that differ in the date only, the address only or the user agent
\* only give different identifiers (the digest being without collisions).
C19_SessionIdFunction ==
    sess.a # <<>> =>
        LET a == sess.a[1]
            b == sess.b[1]
        IN  /\ SessDiffs(a, b) = 0 => sess.ida = sess.idb
            /\ SessDiffs(a, b) = 1 => sess.ida # sess.idb

\* C19, the case: two instants of one UTC date, one identifier; and
\* elsewhere the address alone differs.
C19_Witness ==
    /\ sess.a # <<>>
    /\ sess.a[1].timestamp # sess.b[1].timestamp
    /\ SessDiffs(sess.a[1], sess.b[1]) = 0
    /\ sess.ida = sess.idb
    /\ sess.a[1].ip = <<"-">>

\* C20: requests handled one after another, each within one tick, on a
\* server in any zone.  Of the visits of the visitor who sends no session
\* id, at most one per calendar day of the server is stored as unique.
C20_OneUniquePerLocalDay ==
    \A i \in 1..Len(visits) : \A j \in 1..(i - 1) :
        (/\ visits[i].sessionId \notin ClientSids
         /\ visits[j].sessionId \notin ClientSids
         /\ LocalDate(visits[j].timestamp) = LocalDate(visits[i].timestamp))
            => ~(visits[i].isUnique /\ visits[j].isUnique)

\* ---------------------------------------------------- geolocation: claims
\* 127.0.0.1, 10/8, 172.16/12 and 192.168/16
PrivateV4(o) ==
    \/ o = <<127, 0, 0, 1>>
    \/ o[1] = 10
    \/ o[1] = 172 /\ o[2] \in 16..31
    \/ o[1] = 192 /\ o[2] = 168

\* No address, a loopback address, a private one, or the IPv6-mapped form
\* of one of these
PrivateOrLoopback(ip) ==
    \/ ip.form \in {"", "unknown", "::1"}
    \/ ip.form \in {"v4", "::ffff:v4"} /\ PrivateV4(ip.octets)

\* C16: getCountryFromIP returns the sentinel without any outbound call
\* exactly for a missing, loopback or private address or the IPv6-mapped
\* form of one; for every other address it queries the primary service.
C16_PrivateShortCircuit ==
    [][\A r \in TrackSlots, ip \in GeoIps :
          GeoStart(r, ip) =>
             IF PrivateOrLoopback(ip)
             THEN geo'[r].pc = "idle" /\ geo'[r].calls = <<>> /\ geo'[r].result = Sentinel
             ELSE /\ geo'[r].pc = "fetch"
                  /\ geo'[r].calls = <<[service |-> "primary", outcome |-> "pending"]>>]_vars

Failed(call) == call.outcome \in {"error", "timeout", "status", "invalid"}

C18_LookupReturns == \A r \in TrackSlots : (geo[r].pc # "idle") ~> (geo[r].pc = "idle")

\* ------------------------------------------------------ analytics: claims
\* What a CSV reader does with a quoted field: doubled quotes become one
RECURSIVE Undouble(_)
Undouble(str) ==
    IF str = <<>> THEN <<>>
    ELSE IF Len(str) >= 2 /\ str[1] = Quote /\ str[2] = Quote
    THEN <<Quote>> \o Undouble(Tail(Tail(str)))
    ELSE <<Head(str)>> \o Undouble(Tail(str))

\* ... after it has stripped the outer quotes
CsvUnquote(field) == Undouble(SubSeq(field, 2, Len(field) - 1))

\* C14: the Message field of every exported row is the lead's message in
\* quotes with each quote in it doubled once, and unquoting the field gives
\* the message back.
C14_CsvRoundTrip ==
    [][\A startDate \in WindowBounds, endDate \in WindowBounds, order \in LeadOrders :
          ExportLeads(startDate, endDate, order) =>
             \A i \in DOMAIN order :
                /\ exportCsv'[i].message = CsvCell(leads[order[i]].message)
                /\ CsvUnquote(exportCsv'[i].message) = leads[order[i]].message]_vars

\* The instant lies in the window that starts at startDate and ends before
\* endDate.
InHalfOpen(t, startDate, endDate) ==
    /\ startDate # <<>> => t >= startDate[1]
    /\ endDate # <<>> => t < endDate[1]

\* The instant lies in the window from startDate to endDate, both included.
InClosed(t, startDate, endDate) ==
    /\ startDate # <<>> => t >= startDate[1]
    /\ endDate # <<>> => t <= endDate[1]

InWindow(t, startDate, endDate) ==
    /\ startDate # <<>> => t >= startDate[1]
    /\ endDate # <<>> => t <= endDate[1]

\* C15: the rows of an export with a startDate or an endDate are those of
\* the leads created inside the window, one row each.
C15_ExportWindow ==
    [][\A startDate \in WindowBounds, endDate \in WindowBounds, order \in LeadOrders :
          ExportLeads(startDate, endDate, order) =>
             Len(exportCsv') = Cardinality({id \in DOMAIN leads :
                                  InWindow(leads[id].createdAt, startDate, endDate)})]_vars

\* ---------------------------------------------------------- blog: claims
BlogQuiet == \A s \in BlogSlots : blogSlot[s].pc = "idle"

CommentsOf(id) == {i \in DOMAIN comments : comments[i].blog = id}
RatedOf(id) == {i \in CommentsOf(id) : comments[i].rating # <<>>}

RECURSIVE SumRatings(_)
SumRatings(I) ==
    IF I = {} THEN 0
    ELSE LET i == CHOOSE x \in I : TRUE
         IN  comments[i].rating[1] + SumRatings(I \ {i})

\* C4: once every comment submission and view has been answered, a post that
\* was not deleted has commentsCount equal to the number of comments stored
\* for it, ratingsCount equal to the number of those that carry a rating and
\* ratingsTotal equal to the sum of those ratings.
C4_CountersMatchComments ==
    BlogQuiet =>
        \A id \in DOMAIN posts :
            /\ posts[id].commentsCount = Cardinality(CommentsOf(id))
            /\ posts[id].ratingsCount = Cardinality(RatedOf(id))
            /\ posts[id].ratingsTotal = SumRatings(RatedOf(id))

\* C4, the case: a post that was viewed and has two comments, one of them
\* with a rating, and no request in flight.
C4_Witness ==
    /\ BlogQuiet
    /\ \E id \in DOMAIN posts :
          /\ posts[id].views >= 1
          /\ Cardinality(CommentsOf(id)) = 2
          /\ Cardinality(RatedOf(id)) = 1

\* C27: whenever a comment request finishes, with a 201 or with a 500, a
\* Comment was stored for it exactly when the counters of its post were
\* incremented for it.
C27_CommentAndCountersTogether ==
    [][\A s \in BlogSlots :
          (/\ blogSlot[s].kind = "comment"
           /\ blogSlot'[s].pc = "idle")
          => (blogSlot[s].pc \in {"inc", "refetch"} <=> blogSlot[s].counted)]_vars

\* C11: no two stored posts ever have the same slug, and a POST /blog or PUT
\* /blog/:id that is answered while another post holds the slug it sent is
\* answered with 400 and changes no stored post.
C11_SlugUnique ==
    [][/\ \A x, y \in DOMAIN posts' : posts'[x].slug = posts'[y].slug => x = y
       /\ \A a \in BlogAdminSlots :
             (/\ blogAdmin[a].pc # "idle"
              /\ blogAdmin'[a].pc = "idle"
              /\ SlugTaken(blogAdmin[a].body.slug, blogAdmin[a].id))
             => (blogResp' = 400 /\ posts' = posts)]_vars

\* The slug resolves to no post, or to a post that is not published.
NotPublished(slug) == \A id \in FindBySlug(slug) : ~posts[id].published

\* The rating passes the validation of the comment form.
RatingValid(rating) == rating = <<>> \/ rating[1] \in MinRating..MaxRating

\* C12: a valid comment submission with an empty honeypot to a slug that
\* resolves to no post or to an unpublished post is answered with 404, stores
\* no comment, leaves every post as it is and is over with that answer.
C12_UnpublishedRejected ==
    [][\A s \in BlogSlots, slug \in Slugs, rating \in RatingInputs :
          (CommentFind(s, slug, rating, FALSE, TRUE) /\ RatingValid(rating)
              /\ NotPublished(slug))
          => /\ blogResp' = 404
             /\ comments' = comments
             /\ posts' = posts
             /\ blogSlot'[s].pc = "idle"]_vars

\* C12, the case: a post exists and is not published, and the last answer
\* is the 404 of a comment submission (a view of an existing post and a
\* create are never answered with 404).
C12_Witness ==
    /\ blogResp = 404
    /\ \E id \in DOMAIN posts : ~posts[id].published
    /\ comments = <<>>

\* C13: a comment submission that passes validation and has a non-empty
\* honeypot field is answered with 201 whether or not the slug resolves to a
\* published post, stores no comment and changes no post.
C13_HoneypotSilent ==
    [][\A s \in BlogSlots, slug \in Slugs, rating \in RatingInputs :
          (CommentFind(s, slug, rating, TRUE, TRUE) /\ RatingValid(rating))
          => /\ blogResp' = 201
             /\ comments' = comments
             /\ posts' = posts
             /\ blogSlot'[s].pc = "idle"]_vars

\* C13, the case: the last answer is a 201 and there is no post, so it is
\* the answer to a honeypot submission (a create that is answered with 201
\* stores a post, and a stored comment needs a published post).
C13_Witness ==
    /\ blogResp = 201
    /\ posts = <<>>
    /\ comments = <<>>

\* The average of a stats record is its total over its count, in tenths,
\* rounded to the nearest tenth with a half going up, and 0 without ratings.
Rounded(st) ==
    IF st.ratingsCount = 0 THEN st.ratingsAverage = 0
    ELSE /\ 2 * st.ratingsAverage * st.ratingsCount <= 20 * st.ratingsTotal + st.ratingsCount
         /\ 20 * st.ratingsTotal + st.ratingsCount < 2 * (st.ratingsAverage + 1) * st.ratingsCount

\* C21: every ratingsAverage that a blog endpoint reports is ratingsTotal /
\* ratingsCount rounded to one decimal, and 0 when ratingsCount is 0; the 201
\* of a comment creation handled alone reports the counters with its own
\* comment counted in.
C21_AverageRounded ==
    [][/\ \A i \in DOMAIN blogStats' : Rounded(blogStats'[i])
       /\ CommentRefetch(1) =>
             LET id == blogSlot[1].id
             IN  /\ Len(blogStats') = 1
                 /\ blogStats'[1].commentsCount = Cardinality(CommentsOf(id))
                 /\ blogStats'[1].ratingsCount = Cardinality(RatedOf(id))
                 /\ blogStats'[1].ratingsTotal = SumRatings(RatedOf(id))]_vars

\* C21, the case: the third rated comment of a post, rating 5 after ratings
\* that add up to 6, is answered with an average of 3.7 over three ratings.
C21_Witness ==
    /\ blogResp = 201
    /\ blogStats = <<[commentsCount |-> 3, ratingsCount |-> 3, ratingsTotal |-> 11,
                      ratingsAverage |-> 37]>>
    /\ Len(comments) = 3

\* C25: an update that makes a post's status 'published' for the first
\* time and carries no publishedAt sets publishedAt to the current time, and
\* an update of a post that is published already (its status is 'published'
\* and it has a publishedAt) that carries no publishedAt and does not
\* schedule the post leaves publishedAt as it is.
C25_StampedOncePublished ==
    [][\A id \in DOMAIN posts, body \in BlogDatedUpdateBodies :
          (BlogUpdate(id, body) /\ body.publishedAt = <<>>) =>
             /\ (posts[id].publishedAt = <<>> /\ posts[id].status # "published"
                    /\ posts'[id].status = "published")
                   => posts'[id].publishedAt = <<clock>>
             /\ (posts[id].status = "published" /\ posts[id].publishedAt # <<>>
                    /\ body.status # "scheduled")
                   => posts'[id].publishedAt = posts[id].publishedAt]_vars

\* The body is an admin's write that publishes: its status is 'published',
\* or it has no status and its published flag is set.
Publishes(body) ==
    \/ body.status = "published"
    \/ body.status = "undefined" /\ Truthy(body.published)

\* C28: a PUT with status 'scheduled' and a scheduledAt leaves the post
\* with publishedAt = scheduledAt and published = false; a post that is
\* scheduled, has a scheduledAt and is not published is published in the next state only by an
\* admin's write that publishes; and a comment submitted to it is answered
\* with 404.
C28_ScheduledStaysUnpublished ==
    [][/\ \A id \in DOMAIN posts, body \in BlogDatedUpdateBodies :
             (BlogUpdate(id, body) /\ body.status = "scheduled" /\ body.scheduledAt # <<>>)
             => (posts'[id].publishedAt = body.scheduledAt /\ ~posts'[id].published)
       /\ \A id \in DOMAIN posts \cap DOMAIN posts' :
             (posts[id].status = "scheduled" /\ posts[id].scheduledAt # <<>>
                 /\ ~posts[id].published /\ posts'[id].published)
             => \E body \in BlogDatedUpdateBodies : Publishes(body) /\ BlogUpdate(id, body)
       /\ \A slug \in Slugs :
             (CommentFind(1, slug, <<>>, FALSE, TRUE)
                 /\ \A id \in FindBySlug(slug) :
                        posts[id].status = "scheduled" /\ ~posts[id].published)
             => (blogResp' = 404 /\ comments' = comments)]_vars

\* C29: a GET of /categories is answered with 200 and the categories of
\* the published posts with their counts, by count and then by name; it
\* starts no view of a post, changes no post and is not answered with 404.
C29_CategoriesServed ==
    [][BlogGet(1, <<"categories">>) =>
          /\ blogResp' = 200
          /\ blogCats' = SortCategories({c \in CategoryNames : CategoryCount(c) > 0})
          /\ blogSlot' = blogSlot
          /\ posts' = posts]_vars

\* C10: every stored post that has a status is published exactly when its
\* status is 'published'.
C10_PublishedIffStatus ==
    \A id \in DOMAIN posts :
        posts[id].status # "undefined" =>
            (posts[id].published <=> posts[id].status = "published")

\* ----------------------------------------------------------- ads: claims
AdsQuiet == \A a \in AdSlots : adSlot[a].pc = "idle"

\* C3: once every click and impression request has been answered, the stored
\* counters of an ad (0 when it was created) equal the number of requests of
\* that kind that were answered with success.
C3_NoLostIncrement ==
    AdsQuiet => \A id \in DOMAIN ads :
                    /\ ads[id].clicks = adAcks[id].clicks
                    /\ ads[id].impressions = adAcks[id].impressions

\* C6: every stored ad has endDate >= startDate (a create or an update that
\* would store an earlier endDate is rejected and stores nothing).
C6_EndNotBeforeStart ==
    \A id \in DOMAIN ads : ads[id].endDate >= ads[id].startDate

\* C7: a step that creates or changes an ad leaves it either a draft or with
\* the status its stored dates give at that time.
C7_StatusFollowsDates ==
    [][\A id \in DOMAIN ads' :
          ((id \notin DOMAIN ads \/ ads'[id] # ads[id]) /\ ads'[id].status # "draft")
              => ads'[id].status =
                     DeriveStatus(ads'[id].startDate, ads'[id].endDate, clock, "")]_vars

\* C8: POST /ads with endDate >= startDate stores 'draft' when the body says
\* 'draft', and otherwise (status omitted, 'active' or 'expired') the status
\* the dates give.
C8_CreateStatus ==
    [][\A body \in CreateBodies :
          (AdCreate(body) /\ body.endDate >= body.startDate)
              => ads'[adNext].status =
                     IF body.status = "draft" THEN "draft"
                     ELSE DeriveStatus(body.startDate, body.endDate, clock, "")]_vars

\* C9: for a stored ad that is not a draft, isActive() at now is true exactly
\* when startDate <= now <= endDate.
C9_IsActiveInRange ==
    \A id \in DOMAIN ads :
        ads[id].status # "draft"
            => (isActive(ads[id], clock)
                   <=> (ads[id].startDate <= clock /\ clock <= ads[id].endDate))

\* C30: an ad that was created with status 'active' before its startDate is
\* stored as 'draft' and stays 'draft' through every click, impression and
\* update without a status, also once its startDate has passed: isActive() is
\* false for it and no GET /ads?active=true returns it.
C30_DraftAbsorbing ==
    /\ \A id \in DOMAIN ads :
          /\ ads[id].status = "draft"
          /\ ~isActive(ads[id], clock)
    /\ adList.active = "true" => adList.ads = {}
    /\ \A e \in adList.ads : ~e.isActive

\* C30, the case: the ad's startDate has passed and its endDate has not, it
\* was clicked and shown, and a GET /ads?active=true was answered without it.
C30_Witness ==
    /\ adList.active = "true"
    /\ \E id \in DOMAIN ads :
          /\ ads[id].startDate <= clock /\ clock <= ads[id].endDate
          /\ ads[id].clicks >= 1
          /\ ads[id].impressions >= 1
          /\ ads[id].status = "draft"

====
